---- MODULE Spec2Model ----
(***************************************************************************)
(* A model of the KELAH Agrovet landing page scripts:                      *)
(*   js/utils.js   (Utils: debounce, throttle, element queries)            *)
(*   js/config.js  (CONFIG and its link builders, the KelahApp controller) *)
(*   animations    (Animations: scroll reveal, product stagger)            *)
(*                                                                         *)
(* Time.  The page runs on one event loop.  The model keeps the browser's  *)
(* list of active timers in creation order, each with the milliseconds     *)
(* left until it is due.  Time advances in steps of a quantum that divides *)
(* every delay the scripts use; it cannot advance past a due timer, and    *)
(* the due timer created first runs first.  An event handler may run at    *)
(* the same instant as a due timer, before or after it.                    *)
(***************************************************************************)
EXTENDS Integers, Sequences, FiniteSets, TLC

(***************************************************************************)
(* Bounds of the model                                                     *)
(***************************************************************************)
\* Calls made to the debounced / throttled wrapper under test.
MaxCalls == 3

(***************************************************************************)
(* Delays of the program, in milliseconds                                  *)
(***************************************************************************)
DebounceDefaultWait == 150
ThrottleDefaultLimit == 150
ResizeDebounceWait == 250
ScrollThrottleLimit == 100
NotifyDuration == 3000
NotifyExit == 300
NotifyLifetime == NotifyDuration + NotifyExit

RECURSIVE Gcd(_, _)
Gcd(a, b) == IF b = 0 THEN a ELSE Gcd(b, a % b)

\* The time step of the wrapper and application specifications.
Quantum ==
    Gcd(Gcd(DebounceDefaultWait, ResizeDebounceWait),
        Gcd(ThrottleDefaultLimit, ScrollThrottleLimit))

\* Argument values handed to a wrapper under test.
Args == {1, 2}
\* debounce(fn, w) is exercised with the default wait and the wait the
\* application passes; throttle(fn, l) likewise.
Waits == {DebounceDefaultWait, ResizeDebounceWait}
Limits == {ThrottleDefaultLimit, ScrollThrottleLimit}

\* The wrappers the program creates, by the function they wrap.  "fn" is the
\* wrapped function of the wrapper under test.
Debounced == {"fn", "handleResize"}
Throttled == {"fn", "handleScroll", "headerScroll"}

VARIABLES
    timers,      \* the event loop's active timers, in creation order
    timeout,     \* debounce: the closure variable `timeout` of each wrapper
    inThrottle,  \* throttle: the closure variable `inThrottle` of each wrapper
    wait,        \* debounce under test: its wait
    dCalls,      \* debounce under test: calls made, each <<args, ms since>>
    dLog,        \* debounce under test: invocations of fn
    limit,       \* throttle under test: its limit
    tCalls,      \* throttle under test: calls made
    tLog,        \* throttle under test: invocations of fn
    tSince,      \* throttle under test: ms since fn last ran (-1: never)
    CONFIG,      \* the configuration object
    linkCall,    \* link builders: the last call made
    linkRet,     \* link builders: what that call returned
    notes,       \* the notification nodes created, in creation order
    nCalls,      \* the calls of showNotification, each with the ms since
    doc,         \* the document the page was served with
    hasIO,       \* whether the browser defines IntersectionObserver
    readyState,  \* document.readyState
    phase,       \* "load": the scripts have not run; "waiting": init waits
                 \* for DOMContentLoaded; "ready": init has returned
    DOM,         \* KelahApp: the cached elements (TRUE: found, FALSE: null)
    listeners,   \* the event listeners registered
    state,       \* KelahApp: state.mobileMenuOpen, state.currentSection
    classes,     \* which elements carry the class 'active' / 'loading'
    bodyOverflow,  \* document.body.style.overflow
    innerWidth,  \* window.innerWidth
    scrollY,     \* window.scrollY (= window.pageYOffset)
    scrollPending,  \* a scroll event waits to be dispatched
    boxShadow,   \* header.style.boxShadow
    links,       \* the href of the tel: links, the wa.me links and the
                 \* clicked WhatsApp button
    logged,      \* the contexts of the calls of Utils.logError, in order
    inits,       \* the number of runs of init
    uncaught,    \* an event handler has thrown
    changedBy,   \* the handler that last changed state.mobileMenuOpen
    style,       \* the inline style of each watched card
    observing,   \* the cards revealObserver observes
    productObserving,  \* productObserver observes #products
    reported,    \* the cards revealObserver was told intersect
    scheduled,   \* per card, the reveals revealObserver has scheduled
    cascades     \* the product cascades productObserver has scheduled

timerVars == <<timers, timeout, inThrottle>>
debounceVars == <<wait, dCalls, dLog>>
throttleVars == <<limit, tCalls, tLog, tSince>>
linkVars == <<CONFIG, linkCall, linkRet>>
noteVars == <<notes, nCalls>>
envVars == <<doc, hasIO, readyState, innerWidth, scrollY, scrollPending>>
appVars ==
    <<phase, DOM, listeners, state, classes, bodyOverflow, boxShadow, links,
      logged, inits, uncaught, changedBy>>
revealVars == <<style, observing, productObserving, reported, scheduled, cascades>>
pageVars == <<envVars, appVars, revealVars>>
underTest == <<debounceVars, throttleVars, linkVars, noteVars>>
vars ==
    <<timerVars, debounceVars, throttleVars, linkVars, noteVars, envVars,
      appVars, revealVars>>

(***************************************************************************)
(* The timer list: setTimeout, clearTimeout                                *)
(***************************************************************************)
Min(a, b) == IF a < b THEN a ELSE b

TimerIds(T) == {T[i].id : i \in 1..Len(T)}

\* A handle no active timer and no wrapper holds.  Browsers never hand out a
\* handle twice; the least unused one is its representative here.
FreshId(T, held) ==
    CHOOSE i \in 1..(Len(T) + Cardinality(held) + 1) :
        /\ i \notin TimerIds(T)
        /\ i \notin held
        /\ \A j \in 1..(i - 1) : j \in TimerIds(T) \/ j \in held

\* clearTimeout(id): the timer of that handle, if still active, is dropped.
ClearTimeout(T, id) ==
    LET Keep(t) == t.id # id IN SelectSeq(T, Keep)

\* setTimeout(cb, delay), the callback cb given by its kind fn, the wrapper w
\* that made it ("" if none) and the number it closes over (0 if none).
SetTimeout(T, id, fn, w, arg, delay) ==
    Append(T, [id |-> id, left |-> delay, fn |-> fn, w |-> w, arg |-> arg])

HeldIds == {timeout[w] : w \in Debounced} \ {0}

\* The timer that runs next: the first created among those due.
DueIndexes == {i \in 1..Len(timers) : timers[i].left = 0}
HasDue == DueIndexes # {}
DueIndex == CHOOSE i \in DueIndexes : \A j \in DueIndexes : i <= j
DueTimer == timers[DueIndex]
\* The timer list once the due timer has been taken off it to run.
TimersAfterDue ==
    [i \in 1..(Len(timers) - 1) |->
        IF i < DueIndex THEN timers[i] ELSE timers[i + 1]]

\* Time passes: q ms come off every active timer.
Elapse(T, q) == [i \in 1..Len(T) |-> [T[i] EXCEPT !.left = @ - q]]

(***************************************************************************)
(* Utils.debounce                                                          *)
(***************************************************************************)
\* A wrapper that forgets clearTimeout(timeout).
DebounceNotCleared(w) == timers

\* The timer list after clearTimeout(timeout) in executedFunction.
DebounceCleared(w) == ClearTimeout(timers, timeout[w])

\* executedFunction(...args) of the wrapper around w, created with wait ms.
DebounceCall(w, ms, args) ==
    LET cleared == DebounceCleared(w)
        id == FreshId(cleared, HeldIds \ {timeout[w]})
    IN  /\ timers' = SetTimeout(cleared, id, "debounced", w, args, ms)
        /\ timeout' = [timeout EXCEPT ![w] = id]

(***************************************************************************)
(* Utils.throttle                                                          *)
(***************************************************************************)
\* A wrapper that never looks at inThrottle.
ThrottleAlwaysOpen(w) == TRUE

\* Whether the wrapper around w lets a call through.
ThrottleOpen(w) == ~inThrottle[w]

\* The bookkeeping of a call that was let through: inThrottle = true and the
\* timer that resets it.
ThrottleTimers(T, w, ms) ==
    SetTimeout(T, FreshId(T, HeldIds), "inThrottle", w, 0, ms)

ThrottleArm(w, ms) ==
    /\ inThrottle' = [inThrottle EXCEPT ![w] = TRUE]
    /\ timers' = ThrottleTimers(timers, w, ms)

\* () => inThrottle = false
ThrottleReset ==
    /\ HasDue
    /\ DueTimer.fn = "inThrottle"
    /\ timers' = TimersAfterDue
    /\ inThrottle' = [inThrottle EXCEPT ![DueTimer.w] = FALSE]

(***************************************************************************)
(* CONFIG and its link builders                                            *)
(***************************************************************************)
\* A text is a sequence of pieces, each a run of characters that
\* encodeURIComponent leaves alone (letters, digits, - _ . ! ~ * ' ( )) or a
\* single character that it escapes.
RECURSIVE Concat(_)
Concat(pieces) ==
    IF pieces = <<>> THEN "" ELSE Head(pieces) \o Concat(Tail(pieces))

\* The fields of CONFIG the scripts read.
ConfigAtLoad ==
    [phone |-> "+254722784947",
     whatsapp |-> "254722784947",
     mobile |-> 768,
     scrollOffset |-> 100,
     scrollRevealEnabled |-> TRUE,
     lazyLoadImages |-> TRUE]

\* const defaultMessage
defaultMessage ==
    <<"Hello", " ", "KELAH", " ", "Agrovet", ",", " ", "I'd", " ", "like",
      " ", "to", " ", "inquire", " ", "about", " ", "your", " ", "services.">>

\* The character codes of the escaped characters of the model's texts.
CharCode ==
    (" " :> 32) @@ ("%" :> 37) @@ ("&" :> 38) @@ ("," :> 44) @@ (":" :> 58)

HexDigits ==
    <<"0", "1", "2", "3", "4", "5", "6", "7",
      "8", "9", "A", "B", "C", "D", "E", "F">>

\* The escape of an octet: "%" and two upper-case hexadecimal digits.
PercentOctet(n) == "%" \o HexDigits[(n \div 16) + 1] \o HexDigits[(n % 16) + 1]

\* encodeURIComponent, piece by piece.
EncodePieces(text) ==
    [i \in 1..Len(text) |->
        IF text[i] \in DOMAIN CharCode
        THEN PercentOctet(CharCode[text[i]])
        ELSE text[i]]

encodeURIComponent(text) == Concat(EncodePieces(text))

\* A builder that never falls back to the default message.
TextNoDefault(message) == message

\* message || defaultMessage
TextOrDefault(message) == IF message = <<>> THEN defaultMessage ELSE message

\* CONFIG.getWhatsAppLink(message = ''): given says whether the caller passed
\* an argument.
getWhatsAppLink(given, message) ==
    LET msg == IF given THEN message ELSE <<>>
        text == encodeURIComponent(TextOrDefault(msg))
    IN  "https://wa.me/" \o CONFIG.whatsapp \o "?text=" \o text

\* CONFIG.getPhoneLink()
getPhoneLink == "tel:" \o CONFIG.phone

IdleLink ==
    /\ CONFIG = ConfigAtLoad
    /\ linkCall = [fn |-> "", given |-> FALSE, message |-> <<>>]
    /\ linkRet = ""

(***************************************************************************)
(* KelahApp.showNotification                                               *)
(***************************************************************************)
\* A notification that shows every type in the error colour.
BackgroundAlwaysError(type) == "#E74C3C"

\* background: ${type === 'success' ? '#27AE60' : '#E74C3C'}
Background(type) == IF type = "success" THEN "#27AE60" ELSE "#E74C3C"

\* A notification that takes the place of those already shown.
ReplaceChildren(node) ==
    Append([i \in 1..Len(notes) |-> [notes[i] EXCEPT !.inDocument = FALSE]], node)

\* document.body.appendChild(notification)
AppendChild(node) == Append(notes, node)

\* showNotification(message, type = 'info'): given says whether the caller
\* passed a type.
showNotification(message, given, type) ==
    LET t == IF given THEN type ELSE "info"
        notification ==
            [className |-> "notification notification--" \o t,
             textContent |-> message,
             background |-> Background(t),
             animation |-> "slideIn 0.3s ease-out",
             inDocument |-> TRUE]
    IN  /\ notes' = AppendChild(notification)
        /\ timers' = SetTimeout(timers, FreshId(timers, HeldIds), "notifyExit", "",
                                Len(notes) + 1, NotifyDuration)

\* The first timer of a notification: its exit animation starts and its
\* removal is scheduled.
NotificationExit ==
    /\ HasDue
    /\ DueTimer.fn = "notifyExit"
    /\ notes' = [notes EXCEPT ![DueTimer.arg].animation = "slideOut 0.3s ease-out"]
    /\ timers' = SetTimeout(TimersAfterDue, FreshId(TimersAfterDue, HeldIds),
                            "notifyRemove", "", DueTimer.arg, NotifyExit)

\* () => notification.remove()
NotificationRemove ==
    /\ HasDue
    /\ DueTimer.fn = "notifyRemove"
    /\ notes' = [notes EXCEPT ![DueTimer.arg].inDocument = FALSE]
    /\ timers' = TimersAfterDue

IdleNotify == notes = <<>> /\ nCalls = <<>>

(***************************************************************************)
(* KelahApp: the document, init and the event handlers                     *)
(***************************************************************************)
\* The sections handleScroll looks at, in its order.
Sections == <<"hero", "services", "products", "contact">>

\* A document with every element the scripts look for: #header, #menuToggle,
\* #headerActions, links inside .header__actions, phone and WhatsApp
\* buttons, links with tel: and wa.me targets, the four sections stacked
\* from the top of the page, and the watched cards in document order.  The
\* WhatsApp buttons are inside the section whatsappSection ("" for none) and
\* have an element inside them where whatsappIcon says so.
FullDocument ==
    [header |-> TRUE,
     menuToggle |-> TRUE,
     headerActions |-> TRUE,
     headerLinks |-> TRUE,
     phoneBtns |-> TRUE,
     whatsappBtns |-> TRUE,
     whatsappSection |-> "contact",
     whatsappIcon |-> FALSE,
     telLinks |-> TRUE,
     waLinks |-> TRUE,
     sections |-> {"hero", "services", "products", "contact"},
     offsetTop |-> [hero |-> 0, services |-> 600, products |-> 1200,
                    contact |-> 1800],
     offsetHeight |-> [hero |-> 600, services |-> 600, products |-> 600,
                       contact |-> 600],
     cards |-> <<"service-card", "product-category">>]

Cards == 1..Len(doc.cards)
ProductCards == {c \in Cards : doc.cards[c] = "product-category"}

\* let DOM = {}
NothingCached ==
    [header |-> FALSE, menuToggle |-> FALSE, headerActions |-> FALSE,
     phoneBtns |-> FALSE, whatsappBtns |-> FALSE,
     sections |-> {}]

\* cacheDOMElements()
cacheDOMElements ==
    [header |-> doc.header,
     menuToggle |-> doc.menuToggle,
     headerActions |-> doc.headerActions,
     phoneBtns |-> doc.phoneBtns,
     whatsappBtns |-> doc.whatsappBtns,
     sections |-> doc.sections]

\* initEventListeners(), given the elements cached: the listeners it adds.
initEventListeners(cached) ==
    (IF cached.menuToggle THEN {"menuToggle.click"} ELSE {})
        \cup (IF cached.phoneBtns THEN {"phoneBtn.click"} ELSE {})
        \cup (IF cached.whatsappBtns THEN {"whatsappBtn.click"} ELSE {})
        \cup (IF doc.headerLinks THEN {"headerLink.click"} ELSE {})
        \cup {"resize", "scroll.handleScroll"}
        \cup (IF ProductCards # {} THEN {"productCategory.click"} ELSE {})

\* The step of init that throws, if one does: `new IntersectionObserver`
\* is a ReferenceError where the browser does not define it.
InitThrowsIn ==
    IF CONFIG.scrollRevealEnabled /\ ~hasIO THEN "initScrollReveal"
    ELSE IF CONFIG.lazyLoadImages /\ ~hasIO THEN "lazyLoadImages"
    ELSE "none"

\* The initial hidden state initScrollReveal gives a card.
HiddenStyle == [opacity |-> "0", transform |-> "translateY(30px)"]
\* The one initProductStagger gives a product card.
HiddenProductStyle == [opacity |-> "0", transform |-> "translateY(40px) scale(0.95)"]
\* A card the scripts have not touched.
NoStyle == [opacity |-> "", transform |-> ""]

\* The cards' styles after Animations.init(): initScrollReveal hides every
\* card before it creates its observer, initProductStagger hides the product
\* cards again if init gets that far.
StyleAfterInit ==
    IF ~CONFIG.scrollRevealEnabled THEN style
    ELSE IF InitThrowsIn = "initScrollReveal" THEN [c \in Cards |-> HiddenStyle]
    ELSE [c \in Cards |->
            IF c \in ProductCards THEN HiddenProductStyle ELSE HiddenStyle]

\* An Animations.init() that goes on after the step that throws.
AnimationsAlwaysReady == CONFIG.scrollRevealEnabled

\* Animations.init() ran to its end.
AnimationsReady == CONFIG.scrollRevealEnabled /\ InitThrowsIn # "initScrollReveal"

\* A CONFIG whose lazyLoadImages flag init clears.
ConfigCleared == [CONFIG EXCEPT !.lazyLoadImages = FALSE]

\* CONFIG after init: init and the functions it calls read
\* CONFIG.animation.scrollReveal, CONFIG.performance.lazyLoadImages and the
\* business numbers, and assign to no field.
ConfigAfterInit == CONFIG

\* init(): the steps of the try block up to the one that throws, then the
\* catch block.
init ==
    LET cached == cacheDOMElements
        threw == InitThrowsIn
    IN  /\ DOM' = cached
        /\ listeners' = listeners \cup initEventListeners(cached)
                \cup (IF AnimationsReady /\ doc.header
                      THEN {"scroll.headerScroll"} ELSE {})
                \cup (IF AnimationsReady THEN {"anchor.click"} ELSE {})
        /\ style' = StyleAfterInit
        /\ observing' = IF AnimationsReady THEN Cards ELSE observing
        /\ productObserving' =
                IF AnimationsReady /\ "products" \in doc.sections
                THEN TRUE ELSE productObserving
        /\ links' =
                IF threw = "initScrollReveal" THEN links
                ELSE [links EXCEPT
                        !.tel = IF doc.telLinks THEN getPhoneLink ELSE @,
                        !.wa = IF doc.waLinks
                               THEN getWhatsAppLink(FALSE, <<>>) ELSE @]
        /\ classes' = IF threw = "none"
                      THEN [classes EXCEPT !.bodyLoading = FALSE] ELSE classes
        /\ logged' = IF threw = "none" THEN logged
                   ELSE Append(logged, "Initialization failed")
        /\ inits' = inits + 1
        /\ CONFIG' = ConfigAfterInit
        /\ phase' = "ready"

\* Whether the handler put the menu into another state, and which did.
Changed(handler) ==
    changedBy' =
        IF state'.mobileMenuOpen # state.mobileMenuOpen
        THEN [by |-> handler, from |-> state.mobileMenuOpen, width |-> innerWidth]
        ELSE changedBy

\* A startup code that waits for DOMContentLoaded whatever the document's
\* readyState.
RunScriptAlwaysWaits ==
    /\ phase = "load"
    /\ phase' = "waiting"
    /\ listeners' = listeners \cup {"DOMContentLoaded"}
    /\ UNCHANGED <<CONFIG, DOM, classes, links, logged, inits, style,
                   observing, productObserving>>
    /\ UNCHANGED <<timerVars, debounceVars, throttleVars, linkCall, linkRet,
                   noteVars, envVars, state, bodyOverflow, boxShadow,
                   uncaught, reported, scheduled, cascades, changedBy>>

\* The startup code at the end of the script: init now, or on
\* DOMContentLoaded while the document is still loading.
RunScript ==
    /\ phase = "load"
    /\ IF readyState = "loading"
       THEN /\ phase' = "waiting"
            /\ listeners' = listeners \cup {"DOMContentLoaded"}
            /\ UNCHANGED <<CONFIG, DOM, classes, links, logged, inits, style,
                           observing, productObserving>>
       ELSE init
    /\ UNCHANGED <<timerVars, debounceVars, throttleVars, linkCall, linkRet,
                   noteVars, envVars, state, bodyOverflow,
                   boxShadow, uncaught, reported, scheduled, cascades>>
    /\ Changed("init")

\* The document has been parsed: DOMContentLoaded is dispatched.
DOMContentLoaded ==
    /\ readyState = "loading"
    /\ readyState' = "interactive"
    /\ IF "DOMContentLoaded" \in listeners
       THEN init
       ELSE UNCHANGED <<CONFIG, phase, DOM, listeners, classes, links, logged,
                        inits, style, observing, productObserving>>
    /\ UNCHANGED <<timerVars, debounceVars, throttleVars, linkCall, linkRet,
                   noteVars, doc, hasIO, innerWidth, scrollY,
                   scrollPending, state, bodyOverflow, boxShadow, uncaught,
                   reported, scheduled, cascades>>
    /\ Changed("init")

\* A toggleMobileMenu() without its last statement: the body's overflow is
\* left as it is.
toggleWithoutOverflow ==
    [open |-> ~state.mobileMenuOpen,
     classes |-> [classes EXCEPT !.headerActions = ~@, !.menuToggle = ~@],
     overflow |-> bodyOverflow,
     threw |-> ~DOM.headerActions \/ ~DOM.menuToggle]

\* toggleMobileMenu(), statement by statement: the flag is flipped first; a
\* null DOM.headerActions or DOM.menuToggle then throws a TypeError and the
\* rest is skipped.
toggleMobileMenu ==
    LET open == ~state.mobileMenuOpen
    IN  IF ~DOM.headerActions
        THEN [open |-> open, classes |-> classes, overflow |-> bodyOverflow,
              threw |-> TRUE]
        ELSE IF ~DOM.menuToggle
        THEN [open |-> open,
              classes |-> [classes EXCEPT !.headerActions = ~@],
              overflow |-> bodyOverflow, threw |-> TRUE]
        ELSE [open |-> open,
              classes |-> [classes EXCEPT !.headerActions = ~@,
                                          !.menuToggle = ~@],
              overflow |-> IF open THEN "hidden" ELSE "auto",
              threw |-> FALSE]

\* The effect of a call of toggleMobileMenu() from a handler.
CallToggle ==
    LET r == toggleMobileMenu
    IN  /\ state' = [state EXCEPT !.mobileMenuOpen = r.open]
        /\ classes' = r.classes
        /\ bodyOverflow' = r.overflow
        /\ uncaught' = (uncaught \/ r.threw)

\* A click on #menuToggle.
ClickMenuToggle ==
    /\ doc.menuToggle
    /\ IF "menuToggle.click" \in listeners
       THEN CallToggle
       ELSE UNCHANGED <<state, classes, bodyOverflow, uncaught>>
    /\ UNCHANGED <<timerVars, underTest, envVars, revealVars, phase, DOM,
                   listeners, boxShadow, links, logged, inits>>
    /\ Changed("menuToggle.click")

\* A header link that toggles whatever the menu's state.
HeaderLinkAlways == TRUE

\* if (state.mobileMenuOpen) in the header links' listener
HeaderLinkCloses == state.mobileMenuOpen

\* A click on a link inside .header__actions.
ClickHeaderLink ==
    /\ doc.headerLinks
    /\ IF "headerLink.click" \in listeners /\ HeaderLinkCloses
       THEN CallToggle
       ELSE UNCHANGED <<state, classes, bodyOverflow, uncaught>>
    /\ UNCHANGED <<timerVars, underTest, envVars, revealVars, phase, DOM,
                   listeners, boxShadow, links, logged, inits>>
    /\ Changed("headerLink.click")

\* A click on a phone button: handlePhoneClick only writes to the console.
ClickPhone ==
    /\ doc.phoneBtns
    /\ UNCHANGED <<timerVars, underTest, envVars, revealVars, phase, DOM,
                   listeners, state, classes, bodyOverflow, boxShadow, links,
                   logged, inits, uncaught>>
    /\ Changed("phoneBtn.click")

\* The message handleWhatsAppClick builds for a section id.
ContextMessage(section) ==
    <<"Hello", " ", "KELAH", " ", "Agrovet", ",", " ", "I'm", " ",
      "interested", " ", "in", " ", "your", " ", "services.", " ", "I", " ",
      "was", " ", "viewing", ":", " ", section>>

\* The elements a click on a WhatsApp button can have as its target: the
\* button, or an element inside it.
ClickTargets == {"btn", "icon"}

\* handleWhatsAppClick(e): the href of e.target, the element clicked, gets
\* the link with the id of the enclosing section, or 'unknown'.
handleWhatsAppClick(target) ==
    LET section == IF doc.whatsappSection = "" THEN "unknown"
                   ELSE doc.whatsappSection
    IN  links' = [links EXCEPT
                    ![target] = getWhatsAppLink(TRUE, ContextMessage(section))]

\* A click on a WhatsApp button, on the button itself or on the element
\* inside it; the event bubbles to the button's listener.
ClickWhatsApp(target) ==
    /\ doc.whatsappBtns
    /\ target = "icon" => doc.whatsappIcon
    /\ IF "whatsappBtn.click" \in listeners
       THEN handleWhatsAppClick(target)
       ELSE UNCHANGED links
    /\ UNCHANGED <<timerVars, underTest, envVars, revealVars, phase, DOM,
                   listeners, state, classes, bodyOverflow, boxShadow, logged, inits,
                   uncaught>>
    /\ Changed("whatsappBtn.click")

\* A resize of the window: the debounced handleResize is called.
Resize(w) ==
    /\ innerWidth' = w
    /\ IF "resize" \in listeners
       THEN DebounceCall("handleResize", ResizeDebounceWait, 0)
       ELSE UNCHANGED <<timers, timeout>>
    /\ UNCHANGED <<inThrottle, underTest, doc, hasIO, readyState, scrollY,
                   scrollPending, revealVars, appVars>>
    /\ Changed("resize")

\* if (window.innerWidth >= CONFIG.breakpoints.mobile && state.mobileMenuOpen)
ResizeCloses == innerWidth >= CONFIG.mobile /\ state.mobileMenuOpen

\* The debounced call runs: handleResize().
HandleResize ==
    /\ HasDue
    /\ DueTimer.fn = "debounced"
    /\ DueTimer.w = "handleResize"
    /\ timers' = TimersAfterDue
    /\ IF ResizeCloses
       THEN CallToggle
       ELSE UNCHANGED <<state, classes, bodyOverflow, uncaught>>
    /\ UNCHANGED <<timeout, inThrottle, underTest, envVars, revealVars, phase,
                   DOM, listeners, boxShadow, links, logged, inits>>
    /\ Changed("handleResize")

\* A scan that keeps the first section holding the position, not the last.
ScanFirst(i, position, current) ==
    LET hits == {k \in i..Len(Sections) :
                    /\ Sections[k] \in DOM.sections
                    /\ position >= doc.offsetTop[Sections[k]]
                    /\ position < doc.offsetTop[Sections[k]]
                                    + doc.offsetHeight[Sections[k]]}
    IN  IF hits = {} THEN current
        ELSE Sections[CHOOSE k \in hits : \A j \in hits : k <= j]

\* handleScroll(): state.currentSection becomes the id of the last cached
\* section, in the order of Sections, that holds the position scrollY + 200.
RECURSIVE ScanSections(_, _, _)
ScanSections(i, position, current) ==
    IF i > Len(Sections) THEN current
    ELSE LET s == Sections[i]
             hit == /\ s \in DOM.sections
                    /\ position >= doc.offsetTop[s]
                    /\ position < doc.offsetTop[s] + doc.offsetHeight[s]
         IN  ScanSections(i + 1, position, IF hit THEN s ELSE current)

handleScroll == ScanSections(1, scrollY + 200, state.currentSection)

\* The throttled callback of initHeaderScroll.
headerScroll ==
    IF scrollY > 50 THEN "0 2px 10px rgba(0, 0, 0, 0.1)"
    ELSE "0 1px 2px rgba(0, 0, 0, 0.05)"

\* The user, or a smooth scroll, moves the page to the offset y.
ScrollTo(y) ==
    /\ scrollY' = y
    /\ scrollPending' = TRUE
    /\ UNCHANGED <<timerVars, underTest, doc, hasIO, readyState, innerWidth,
                   appVars, revealVars>>

\* A scroll event is dispatched: the window's scroll listeners run in the
\* order they were registered, each behind its own throttle.
ScrollEvent ==
    /\ scrollPending
    /\ scrollPending' = FALSE
    /\ LET app == "scroll.handleScroll" \in listeners /\ ThrottleOpen("handleScroll")
           hdr == "scroll.headerScroll" \in listeners /\ ThrottleOpen("headerScroll")
           t1 == IF app
                 THEN ThrottleTimers(timers, "handleScroll", ScrollThrottleLimit)
                 ELSE timers
           t2 == IF hdr
                 THEN ThrottleTimers(t1, "headerScroll", ScrollThrottleLimit)
                 ELSE t1
       IN  /\ state' = IF app THEN [state EXCEPT !.currentSection = handleScroll]
                       ELSE state
           /\ boxShadow' = IF hdr THEN headerScroll ELSE boxShadow
           /\ inThrottle' = [w \in Throttled |->
                                IF (w = "handleScroll" /\ app)
                                   \/ (w = "headerScroll" /\ hdr)
                                THEN TRUE ELSE inThrottle[w]]
           /\ timers' = t2
    /\ UNCHANGED <<timeout, underTest, doc, hasIO, readyState, innerWidth,
                   scrollY, revealVars, phase, DOM, listeners, classes,
                   bodyOverflow, links, logged, inits, uncaught>>
    /\ Changed("scroll")

\* The timer of a scroll throttle runs.
ScrollThrottleReset ==
    /\ ThrottleReset
    /\ DueTimer.w # "fn"
    /\ UNCHANGED <<timeout, underTest, pageVars>>

\* Utils.smoothScrollTo(selector): the page scrolls to the section's top
\* less the offset, if the section exists.
smoothScrollTo(section) ==
    IF section \in doc.sections
    THEN /\ scrollY' = doc.offsetTop[section] - CONFIG.scrollOffset
         /\ scrollPending' = TRUE
    ELSE UNCHANGED <<scrollY, scrollPending>>

\* A click on a product category: handleProductClick scrolls to #contact.
ClickProductCategory ==
    /\ ProductCards # {}
    /\ IF "productCategory.click" \in listeners
       THEN smoothScrollTo("contact")
       ELSE UNCHANGED <<scrollY, scrollPending>>
    /\ UNCHANGED <<timerVars, underTest, doc, hasIO, readyState, innerWidth,
                   revealVars, phase, DOM, listeners, state, classes,
                   bodyOverflow, boxShadow, links, logged, inits, uncaught>>
    /\ Changed("productCategory.click")

(***************************************************************************)
(* Animations: scroll reveal and product stagger                           *)
(***************************************************************************)
RevealStagger == 100
ProductStagger == 150

\* A reveal that leaves the card invisible.
RevealedButHidden == [opacity |-> "0", transform |-> "translateY(0)"]

RevealedStyle == [opacity |-> "1", transform |-> "translateY(0)"]
RevealedProductStyle == [opacity |-> "1", transform |-> "translateY(0) scale(1)"]

\* The members of a set of cards in document order.
RECURSIVE InOrder(_)
InOrder(S) ==
    IF S = {} THEN <<>>
    ELSE LET c == CHOOSE x \in S : \A y \in S : x <= y
         IN  <<c>> \o InOrder(S \ {c})

\* The timers a callback sets for its entries from the i-th on: the entry of
\* index i - 1, if it passes, is given fn after (i - 1) * step ms.
RECURSIVE ScheduleEach(_, _, _, _, _, _)
ScheduleEach(T, entries, passes, i, fn, step) ==
    IF i > Len(entries) THEN T
    ELSE ScheduleEach(
            IF entries[i] \in passes
            THEN SetTimeout(T, FreshId(T, HeldIds), fn, "", entries[i],
                            (i - 1) * step)
            ELSE T,
            entries, passes, i + 1, fn, step)

\* A reveal observer that keeps observing what it has revealed.
KeepObserving(intersecting) == observing

\* revealObserver.unobserve(entry.target) for the intersecting entries.
Unobserve(intersecting) == observing \ intersecting

\* The callback of revealObserver, with entries for the cards of batch, those
\* of intersecting with isIntersecting true.
RevealCallback(batch, intersecting) ==
    /\ batch # {}
    /\ batch \subseteq observing
    /\ intersecting \subseteq batch
    /\ timers' = ScheduleEach(timers, InOrder(batch), intersecting, 1, "reveal",
                              RevealStagger)
    /\ observing' = Unobserve(intersecting)
    /\ reported' = reported \cup intersecting
    /\ scheduled' = [c \in Cards |->
                        IF c \in intersecting THEN scheduled[c] + 1
                        ELSE scheduled[c]]
    /\ UNCHANGED <<timeout, inThrottle, underTest, envVars, style,
                   productObserving, cascades, phase, DOM, listeners, state,
                   classes, bodyOverflow, boxShadow, links, logged, inits, uncaught>>
    /\ Changed("revealObserver")

\* A callback of productObserver that schedules the cascade and does not
\* disconnect the observer.
ProductCallbackConnected(isIntersecting) ==
    /\ productObserving
    /\ IF isIntersecting
       THEN /\ timers' = ScheduleEach(timers, InOrder(ProductCards), ProductCards,
                                      1, "stagger", ProductStagger)
            /\ cascades' = cascades + 1
            /\ UNCHANGED productObserving
       ELSE UNCHANGED <<timers, productObserving, cascades>>
    /\ UNCHANGED <<timeout, inThrottle, underTest, envVars, style, observing,
                   reported, scheduled, phase, DOM, listeners, state,
                   classes, bodyOverflow, boxShadow, links, logged, inits,
                   uncaught, changedBy>>

\* The callback of productObserver, with its one entry, for #products.
ProductCallback(isIntersecting) ==
    /\ productObserving
    /\ IF isIntersecting
       THEN /\ timers' = ScheduleEach(timers, InOrder(ProductCards), ProductCards,
                                      1, "stagger", ProductStagger)
            /\ productObserving' = FALSE
            /\ cascades' = cascades + 1
       ELSE UNCHANGED <<timers, productObserving, cascades>>
    /\ UNCHANGED <<timeout, inThrottle, underTest, envVars, style, observing,
                   reported, scheduled, phase, DOM, listeners, state,
                   classes, bodyOverflow, boxShadow, links, logged, inits, uncaught>>
    /\ Changed("productObserver")

\* A timer of revealObserver runs: the card is revealed.
RevealTimer ==
    /\ HasDue
    /\ DueTimer.fn = "reveal"
    /\ timers' = TimersAfterDue
    /\ style' = [style EXCEPT ![DueTimer.arg] = RevealedStyle]
    /\ UNCHANGED <<timeout, inThrottle, underTest, envVars, observing,
                   productObserving, reported, scheduled, cascades, phase, DOM,
                   listeners, state, classes, bodyOverflow, boxShadow, links,
                   logged, inits, uncaught>>
    /\ Changed("reveal")

\* A timer of productObserver runs: the product card is revealed.
StaggerTimer ==
    /\ HasDue
    /\ DueTimer.fn = "stagger"
    /\ timers' = TimersAfterDue
    /\ style' = [style EXCEPT ![DueTimer.arg] = RevealedProductStyle]
    /\ UNCHANGED <<timeout, inThrottle, underTest, envVars, observing,
                   productObserving, reported, scheduled, cascades, phase, DOM,
                   listeners, state, classes, bodyOverflow, boxShadow, links,
                   logged, inits, uncaught>>
    /\ Changed("stagger")

\* The targets of the page's tel: and wa.me anchors as the document has
\* them, and of a WhatsApp button not yet clicked.
LinksAtLoad ==
    [tel |-> "tel:+254700000000", wa |-> "https://wa.me/254700000000",
     btn |-> "", icon |-> ""]

\* The page as the browser has it before the scripts run, for a document d
\* with d's cards untouched.
PageAtLoad(d) ==
    /\ doc = d
    /\ phase = "load"
    /\ DOM = NothingCached
    /\ listeners = {}
    /\ state = [mobileMenuOpen |-> FALSE, currentSection |-> "hero"]
    /\ classes = [headerActions |-> FALSE, menuToggle |-> FALSE,
                  bodyLoading |-> TRUE]
    /\ bodyOverflow = ""
    /\ scrollY = 0
    /\ scrollPending = FALSE
    /\ boxShadow = ""
    /\ links = LinksAtLoad
    /\ logged = <<>>
    /\ inits = 0
    /\ uncaught = FALSE
    /\ changedBy = [by |-> "none", from |-> FALSE, width |-> 0]
    /\ style = [c \in 1..Len(d.cards) |-> NoStyle]
    /\ observing = {}
    /\ productObserving = FALSE
    /\ reported = {}
    /\ scheduled = [c \in 1..Len(d.cards) |-> 0]
    /\ cascades = 0

\* The page of the specifications that exercise a function on its own.
IdlePage ==
    /\ PageAtLoad(FullDocument)
    /\ hasIO = TRUE
    /\ readyState = "loading"
    /\ innerWidth = 1024

(***************************************************************************)
(* Time                                                                    *)
(***************************************************************************)
\* The history of the wrappers under test ages with the clock; an age is
\* followed up to one step past the delay it is compared with.
AgeCalls(calls, q, cap) ==
    [i \in 1..Len(calls) |->
        IF i = Len(calls)
        THEN [calls[i] EXCEPT !.since = Min(@ + q, cap)]
        ELSE calls[i]]

Tick(q) ==
    /\ ~HasDue
    /\ timers' = Elapse(timers, q)
    /\ dCalls' = AgeCalls(dCalls, q, wait + q)
    /\ tSince' = IF tSince < 0 THEN tSince ELSE Min(tSince + q, limit + q)
    /\ UNCHANGED <<timeout, inThrottle, wait, dLog, limit, tCalls, tLog>>
    /\ nCalls' = [i \in 1..Len(nCalls) |->
                    [nCalls[i] EXCEPT !.since = Min(@ + q, NotifyLifetime + q)]]
    /\ UNCHANGED <<linkVars, notes, pageVars>>

(***************************************************************************)
(* The debounced wrapper under test: d = Utils.debounce(fn, wait)          *)
(***************************************************************************)
\* d(args)
DCall(args) ==
    /\ Len(dCalls) < MaxCalls
    /\ DebounceCall("fn", wait, args)
    /\ dCalls' = Append(dCalls, [args |-> args, since |-> 0])
    /\ UNCHANGED <<inThrottle, wait, dLog, throttleVars, linkVars, noteVars, pageVars>>

\* The scheduled call runs: func.apply(this, args).  The log notes the call
\* of d it follows and the time since that call.
DFire ==
    /\ HasDue
    /\ DueTimer.fn = "debounced"
    /\ DueTimer.w = "fn"
    /\ timers' = TimersAfterDue
    /\ dLog' = Append(dLog, [args |-> DueTimer.arg, call |-> Len(dCalls),
                             since |-> dCalls[Len(dCalls)].since])
    /\ UNCHANGED <<timeout, inThrottle, wait, dCalls, throttleVars, linkVars, noteVars, pageVars>>

NoTimers ==
    /\ timers = <<>>
    /\ timeout = [w \in Debounced |-> 0]
    /\ inThrottle = [w \in Throttled |-> FALSE]

IdleDebounce == dCalls = <<>> /\ dLog = <<>>
IdleThrottle == tCalls = <<>> /\ tLog = <<>> /\ tSince = -1

InitDebounce ==
    /\ NoTimers
    /\ wait \in Waits
    /\ IdleDebounce
    /\ limit = ThrottleDefaultLimit
    /\ IdleThrottle
    /\ IdleLink
    /\ IdleNotify
    /\ IdlePage

NextDebounce ==
    \/ \E a \in Args : DCall(a)
    \/ DFire
    \/ Tick(Quantum)

SpecDebounce == InitDebounce /\ [][NextDebounce]_vars

\* The scheduled calls of d that are pending.
DPending ==
    {i \in 1..Len(timers) : timers[i].fn = "debounced" /\ timers[i].w = "fn"}
\* fn has run for the k-th call of d.
DInvoked(k) == \E i \in 1..Len(dLog) : dLog[i].call = k

\* C1: a burst of calls to d = debounce(fn, wait), each less than wait ms after
\* the one before, runs fn exactly once, wait ms after the last call of the
\* burst and with that call's arguments: a call followed by another within
\* less than wait ms never runs fn, a call left alone for more than wait ms
\* has run it, every run of fn comes exactly wait ms after the call it
\* belongs to and carries its arguments, and no call runs fn twice.  Each
\* call cancels the pending scheduled call, so at most one is pending.
C1_DebounceBurst ==
    /\ Cardinality(DPending) <= 1
    /\ \A i \in 1..Len(dLog) :
        /\ dLog[i].args = dCalls[dLog[i].call].args
        /\ dLog[i].since = wait
        /\ \A j \in 1..Len(dLog) : i < j => dLog[i].call < dLog[j].call
    /\ \A k \in 1..(Len(dCalls) - 1) :
        /\ dCalls[k].since < wait => ~DInvoked(k)
        /\ dCalls[k].since > wait => DInvoked(k)
    /\ dCalls # <<>> =>
        /\ DInvoked(Len(dCalls)) <=> DPending = {}
        /\ \A i \in DPending :
            /\ timers[i].left = wait - dCalls[Len(dCalls)].since
            /\ timers[i].arg = dCalls[Len(dCalls)].args

\* A burst of three calls with differing arguments has run fn once, for
\* the third.
C1_Witness ==
    /\ Len(dCalls) = 3
    /\ dCalls[1].since < wait
    /\ dCalls[2].since < wait
    /\ dCalls[1].args # dCalls[3].args
    /\ Len(dLog) = 1
    /\ dLog[1].call = 3

(***************************************************************************)
(* The throttled wrapper under test: t = Utils.throttle(fn, limit)         *)
(***************************************************************************)
\* t(args): fn runs at once if the wrapper is open, else the call is dropped.
TCall(args) ==
    /\ Len(tCalls) < MaxCalls
    /\ tCalls' = Append(tCalls, [args |-> args, since |-> tSince])
    /\ IF ThrottleOpen("fn")
       THEN /\ tLog' = Append(tLog, [args |-> args, call |-> Len(tCalls) + 1])
            /\ ThrottleArm("fn", limit)
            /\ tSince' = 0
       ELSE UNCHANGED <<tLog, inThrottle, timers, tSince>>
    /\ UNCHANGED <<timeout, limit, debounceVars, linkVars, noteVars, pageVars>>

TReset ==
    /\ ThrottleReset
    /\ UNCHANGED <<timeout, debounceVars, throttleVars, linkVars, noteVars, pageVars>>

InitThrottle ==
    /\ NoTimers
    /\ wait = DebounceDefaultWait
    /\ IdleDebounce
    /\ limit \in Limits
    /\ IdleThrottle
    /\ IdleLink
    /\ IdleNotify
    /\ IdlePage

NextThrottle ==
    \/ \E a \in Args : TCall(a)
    \/ TReset
    \/ Tick(Quantum)

SpecThrottle == InitThrottle /\ [][NextThrottle]_vars

\* fn has run for the k-th call of t.
TRan(k) == \E i \in 1..Len(tLog) : tLog[i].call = k

\* C2: t = throttle(fn, limit) runs fn at once, with the call's arguments,
\* on the first call; a call made less than limit ms after the last call
\* that ran fn is dropped (fn does not run, nothing is queued: the only timer
\* there ever is resets inThrottle); a call made more than limit ms after it
\* runs fn at once and opens a new window.
C2_ThrottleWindow ==
    /\ \A k \in 1..Len(tCalls) :
        /\ tCalls[k].since < 0 => TRan(k)
        /\ (0 <= tCalls[k].since /\ tCalls[k].since < limit) => ~TRan(k)
        /\ tCalls[k].since > limit => TRan(k)
    /\ tCalls # <<>> => tLog # <<>> /\ tLog[1].call = 1
    /\ \A i \in 1..Len(tLog) :
        /\ tLog[i].args = tCalls[tLog[i].call].args
        /\ \A j \in 1..Len(tLog) : i < j => tLog[i].call < tLog[j].call
    /\ Len(timers) = (IF inThrottle["fn"] THEN 1 ELSE 0)
    /\ \A i \in 1..Len(timers) : timers[i].fn = "inThrottle"
    /\ inThrottle["fn"] => tSince = limit - timers[1].left

\* Two calls in one window, the second dropped, and a third after the
\* window that ran fn again.
C2_Witness ==
    /\ Len(tCalls) = 3
    /\ tCalls[2].since < limit
    /\ tCalls[2].args # tCalls[1].args
    /\ tCalls[3].since > limit
    /\ Len(tLog) = 2
    /\ tLog[2].call = 3

(***************************************************************************)
(* The link builders under test                                            *)
(***************************************************************************)
\* Length of the messages handed to getWhatsAppLink.
MaxMessage == 3

Pieces == {"Hello", "I'd", " ", ",", "%"}

Messages == UNION {[1..n -> Pieces] : n \in 0..MaxMessage}

CallGetWhatsAppLink(given, message) ==
    /\ linkCall' = [fn |-> "getWhatsAppLink", given |-> given, message |-> message]
    /\ linkRet' = getWhatsAppLink(given, message)
    /\ UNCHANGED <<CONFIG, timerVars, debounceVars, throttleVars, noteVars, pageVars>>

CallGetPhoneLink ==
    /\ linkCall' = [fn |-> "getPhoneLink", given |-> FALSE, message |-> <<>>]
    /\ linkRet' = getPhoneLink
    /\ UNCHANGED <<CONFIG, timerVars, debounceVars, throttleVars, noteVars, pageVars>>

InitLink ==
    /\ NoTimers
    /\ wait = DebounceDefaultWait
    /\ IdleDebounce
    /\ limit = ThrottleDefaultLimit
    /\ IdleThrottle
    /\ IdleLink
    /\ IdleNotify
    /\ IdlePage

NextLink ==
    \/ \E m \in Messages : CallGetWhatsAppLink(TRUE, m)
    \/ CallGetWhatsAppLink(FALSE, <<>>)
    \/ CallGetPhoneLink

SpecLink == InitLink /\ [][NextLink]_vars

\* What each escaped character of the model's texts must become.
Escaped ==
    (" " :> "%20") @@ ("%" :> "%25") @@ ("&" :> "%26") @@ ("," :> "%2C")
        @@ (":" :> "%3A")

\* C9: getWhatsAppLink(message) is "https://wa.me/", the configured handle,
\* "?text=" and the percent-encoding of the message: every run of unreserved
\* characters as it is, every other character as its escape; with no message
\* or the empty message the text is that of the fixed default message.
\* getPhoneLink() is "tel:" and the configured phone.  Neither call changes
\* CONFIG or any other state of the page.
C9_ContactLinks ==
    /\ linkCall.fn = "getWhatsAppLink" =>
        /\ LET enc == [i \in 1..Len(linkCall.message) |->
                           IF linkCall.message[i] \in DOMAIN Escaped
                           THEN Escaped[linkCall.message[i]]
                           ELSE linkCall.message[i]]
           IN  (linkCall.given /\ linkCall.message # <<>>) =>
                   linkRet = "https://wa.me/254722784947?text=" \o Concat(enc)
        /\ (~linkCall.given \/ linkCall.message = <<>>) =>
            linkRet = "https://wa.me/254722784947?text=Hello%20KELAH%20Agrovet%2C%20I'd%20like%20to%20inquire%20about%20your%20services."
    /\ linkCall.fn = "getPhoneLink" => linkRet = "tel:+254722784947"
    /\ CONFIG = ConfigAtLoad
    /\ NoTimers /\ IdleDebounce /\ IdleThrottle

\* An explicit message with an escaped character has been built into a link.
C9_Witness ==
    /\ linkCall.fn = "getWhatsAppLink"
    /\ linkCall.given
    /\ linkCall.message = <<"Hello", ",", "%">>
    /\ linkRet = "https://wa.me/254722784947?text=Hello%2C%25"

(***************************************************************************)
(* Notifications under test                                                *)
(***************************************************************************)
\* Calls made to showNotification.
MaxNotes == 2

NotifyQuantum == Gcd(NotifyDuration, NotifyExit)

NoteTexts == {"Saved", "Failed"}
NoteTypes == {"success", "error", "info"}

ShowNotification(message, given, type) ==
    /\ Len(nCalls) < MaxNotes
    /\ showNotification(message, given, type)
    /\ nCalls' = Append(nCalls, [message |-> message, given |-> given,
                                 type |-> type, since |-> 0])
    /\ UNCHANGED <<timeout, inThrottle, debounceVars, throttleVars, linkVars, pageVars>>

NotifyExitTimer ==
    /\ NotificationExit
    /\ UNCHANGED <<timeout, inThrottle, debounceVars, throttleVars, linkVars, nCalls, pageVars>>

NotifyRemoveTimer ==
    /\ NotificationRemove
    /\ UNCHANGED <<timeout, inThrottle, debounceVars, throttleVars, linkVars, nCalls, pageVars>>

InitNotify ==
    /\ NoTimers
    /\ wait = DebounceDefaultWait
    /\ IdleDebounce
    /\ limit = ThrottleDefaultLimit
    /\ IdleThrottle
    /\ IdleLink
    /\ IdleNotify
    /\ IdlePage

NextNotify ==
    \/ \E m \in NoteTexts, t \in NoteTypes : ShowNotification(m, TRUE, t)
    \/ \E m \in NoteTexts : ShowNotification(m, FALSE, "")
    \/ NotifyExitTimer
    \/ NotifyRemoveTimer
    \/ Tick(NotifyQuantum)

SpecNotify == InitNotify /\ [][NextNotify]_vars

\* The pending timers of the i-th notification, by kind.
NoteTimers(i, fn) ==
    {j \in 1..Len(timers) : timers[j].fn = fn /\ timers[j].arg = i}

\* C7: each call showNotification(message, type) inserts exactly one node,
\* carrying the message and, for type 'success', the colour #27AE60; the node
\* is in the document with its entry animation until 3000 ms after the call,
\* in its exit animation from then until 3300 ms, and out of the document,
\* for good, once 3300 ms have passed.
C7_NotificationLifecycle ==
    /\ Len(notes) = Len(nCalls)
    /\ \A i \in 1..Len(nCalls) :
        /\ notes[i].textContent = nCalls[i].message
        /\ (nCalls[i].given /\ nCalls[i].type = "success") =>
            notes[i].background = "#27AE60"
        /\ nCalls[i].since < 3000 =>
            notes[i].inDocument /\ notes[i].animation = "slideIn 0.3s ease-out"
        /\ (3000 < nCalls[i].since /\ nCalls[i].since < 3300) =>
            notes[i].inDocument /\ notes[i].animation = "slideOut 0.3s ease-out"
        /\ nCalls[i].since <= 3300 /\ ~notes[i].inDocument =>
            nCalls[i].since = 3300
        /\ nCalls[i].since > 3300 => ~notes[i].inDocument

\* A success notification has lived its 3300 ms and is gone.
C7_Witness ==
    \E i \in 1..Len(nCalls) :
        /\ nCalls[i].given /\ nCalls[i].type = "success"
        /\ notes[i].background = "#27AE60"
        /\ nCalls[i].since > 3300
        /\ ~notes[i].inDocument

\* C8: notifications are neither coordinated nor deduplicated: K calls make
\* K nodes; the nodes in the document are those of the calls made less than
\* 3300 ms ago (and, at exactly 3300 ms, those whose removal has not run yet);
\* and each node has only its own timers, counting from its own call: the
\* exit timer until 3000 ms, then the removal timer until 3300 ms.
C8_NotificationsIndependent ==
    /\ Len(notes) = Len(nCalls)
    /\ Cardinality({i \in 1..Len(notes) : notes[i].inDocument})
        = Cardinality({i \in 1..Len(nCalls) :
            \/ nCalls[i].since < NotifyLifetime
            \/ nCalls[i].since = NotifyLifetime /\ NoteTimers(i, "notifyRemove") # {}})
    /\ \A i \in 1..Len(nCalls) :
        /\ \A j \in NoteTimers(i, "notifyExit") :
            timers[j].left = NotifyDuration - nCalls[i].since
        /\ \A j \in NoteTimers(i, "notifyRemove") :
            timers[j].left = NotifyLifetime - nCalls[i].since
        /\ Cardinality(NoteTimers(i, "notifyExit") \cup NoteTimers(i, "notifyRemove"))
            = (IF notes[i].inDocument THEN 1 ELSE 0)
    /\ Len(timers) = Cardinality({i \in 1..Len(notes) : notes[i].inDocument})

\* Two notifications with the same message and type, made at different
\* times, are in the document together.
C8_Witness ==
    /\ Len(nCalls) = 2
    /\ nCalls[1].message = nCalls[2].message
    /\ nCalls[1].type = nCalls[2].type
    /\ nCalls[1].given /\ nCalls[2].given
    /\ nCalls[1].since > nCalls[2].since
    /\ nCalls[1].since > NotifyDuration
    /\ notes[1].inDocument /\ notes[2].inDocument

(***************************************************************************)
(* The page: menu, clicks, resize and scroll                               *)
(***************************************************************************)
\* A document with none of the elements the scripts look for.
EmptyDocument ==
    [FullDocument EXCEPT !.header = FALSE, !.menuToggle = FALSE,
                         !.headerActions = FALSE, !.headerLinks = FALSE,
                         !.phoneBtns = FALSE, !.whatsappBtns = FALSE,
                         !.whatsappSection = "", !.telLinks = FALSE,
                         !.waLinks = FALSE, !.sections = {}, !.cards = <<>>]

\* The documents of the menu specification: the full document with each of
\* #menuToggle, #headerActions and the header links present or absent, and
\* the empty document.
MenuDocuments ==
    {[FullDocument EXCEPT !.menuToggle = t, !.headerActions = a,
                          !.headerLinks = l] :
        t \in BOOLEAN, a \in BOOLEAN, l \in BOOLEAN}
    \cup {EmptyDocument}

\* The widths the window is resized to: just below and at the breakpoint.
Widths == {767, 768}

\* Where the user scrolls to.
ScrollOffsets == {60}

InitMenu ==
    /\ NoTimers
    /\ wait = DebounceDefaultWait
    /\ IdleDebounce
    /\ limit = ThrottleDefaultLimit
    /\ IdleThrottle
    /\ IdleLink
    /\ IdleNotify
    /\ \E d \in MenuDocuments : PageAtLoad(d)
    /\ hasIO = TRUE
    /\ readyState \in {"loading", "complete"}
    /\ innerWidth = 767

NextMenu ==
    \/ RunScript
    \/ DOMContentLoaded
    \/ ClickMenuToggle
    \/ ClickHeaderLink
    \/ ClickPhone
    \/ \E w \in Widths : Resize(w)
    \/ HandleResize
    \/ \E y \in ScrollOffsets : ScrollTo(y)
    \/ ScrollEvent
    \/ ScrollThrottleReset
    \/ Tick(Quantum)

SpecMenu == InitMenu /\ [][NextMenu]_vars

\* The menu toggle's listener is registered.
ToggleWired == "menuToggle.click" \in listeners

\* C3: a click on #menuToggle takes the closed menu to open with the body's
\* overflow 'hidden' and the open menu to closed with overflow 'auto'; the
\* debounced resize handler closes an open menu when the window is at least
\* as wide as the mobile breakpoint and otherwise leaves the menu as it is;
\* the resize event itself leaves it as it is.
C3_MenuToggle ==
    [][ /\ (ClickMenuToggle /\ ToggleWired)
            => IF state.mobileMenuOpen
               THEN ~state'.mobileMenuOpen /\ bodyOverflow' = "auto"
               ELSE state'.mobileMenuOpen /\ bodyOverflow' = "hidden"
        /\ HandleResize
            => state'.mobileMenuOpen =
                 (state.mobileMenuOpen /\ innerWidth < CONFIG.mobile)
        /\ (\E w \in Widths : Resize(w))
            => state'.mobileMenuOpen = state.mobileMenuOpen
      ]_vars

\* C4 as stated: the menu-open flag is changed by a click on the menu
\* toggle and by the forced close of the resize handler, and by nothing else.
C4_OnlyToggleAndResize ==
    changedBy.by \in {"none", "menuToggle.click", "handleResize"}

\* C4: the menu-open flag is changed by a click on the menu toggle, by the
\* resize handler, which only closes an open menu and only at or above the
\* mobile breakpoint, and by a click on a link inside the header actions,
\* which only closes an open menu; no other click, scroll event or timer
\* changes it.
C4_MenuTransitions ==
    /\ changedBy.by \in {"none", "menuToggle.click", "handleResize",
                          "headerLink.click"}
    /\ changedBy.by = "handleResize"
        => changedBy.from /\ changedBy.width >= CONFIG.mobile
    /\ changedBy.by = "headerLink.click" => changedBy.from

\* An open menu was closed by a click on a header link, after the page had
\* been scrolled and resized.
C4_Witness ==
    /\ changedBy.by = "headerLink.click"
    /\ ~state.mobileMenuOpen
    /\ scrollY > 0
    /\ innerWidth >= CONFIG.mobile

\* C10: whichever elements the document lacks, init ends without an
\* exception, no handler throws, and the menu stays closed in a document
\* without #headerActions or without #menuToggle.
C10_AbsentElementsNoOp ==
    /\ logged = <<>>
    /\ ~uncaught
    /\ (~doc.headerActions \/ ~doc.menuToggle) => ~state.mobileMenuOpen

(***************************************************************************)
(* The reveal animations: documents with up to MaxCards watched cards      *)
(***************************************************************************)
MaxCards == 2

\* The classes of the watched cards; initProductStagger treats the product
\* categories apart, the other classes are all handled alike.
CardKinds == {"service-card", "product-category", "testimonial"}

RECURSIVE CardLists(_)
CardLists(n) ==
    IF n = 0 THEN {<<>>}
    ELSE LET shorter == CardLists(n - 1)
         IN  shorter \cup {Append(l, k) : l \in {x \in shorter : Len(x) = n - 1},
                                          k \in CardKinds}

\* The full document with each list of cards, with and without #products.
RevealDocuments ==
    {[FullDocument EXCEPT !.cards = l,
                          !.sections = IF p THEN @ ELSE @ \ {"products"}] :
        l \in CardLists(MaxCards), p \in BOOLEAN}

InitReveal ==
    /\ NoTimers
    /\ wait = DebounceDefaultWait
    /\ IdleDebounce
    /\ limit = ThrottleDefaultLimit
    /\ IdleThrottle
    /\ IdleLink
    /\ IdleNotify
    /\ \E d \in RevealDocuments : PageAtLoad(d)
    /\ hasIO \in BOOLEAN
    /\ readyState \in {"loading", "complete"}
    /\ innerWidth = 1024

\* revealObserver delivers entries for some of the cards it observes, some
\* of them intersecting.
RevealEntries ==
    \E batch \in SUBSET Cards :
        \E intersecting \in SUBSET batch : RevealCallback(batch, intersecting)

NextReveal ==
    \/ RunScript
    \/ DOMContentLoaded
    \/ RevealEntries
    \/ \E b \in BOOLEAN : ProductCallback(b)
    \/ RevealTimer
    \/ StaggerTimer
    \/ Tick(Quantum)

SpecReveal == InitReveal /\ [][NextReveal]_vars

\* The timers of revealObserver still to run for card c.
RevealPending(c) ==
    {i \in 1..Len(timers) : timers[i].fn = "reveal" /\ timers[i].arg = c}

\* Card c has reported intersection and is dealt with once: it is no longer
\* observed, one reveal was scheduled for it, and it is revealed or about
\* to be.
RevealedOnce(c) ==
    /\ c \notin observing
    /\ scheduled[c] = 1
    /\ \/ style[c].opacity = "1" /\ RevealPending(c) = {}
       \/ Cardinality(RevealPending(c)) = 1

\* C5 as stated: after init every watched card that has not reported
\* intersection is hidden, and a card that has reported it is revealed once
\* and no longer observed.
C5_HiddenUntilReported ==
    phase = "ready" =>
        \A c \in Cards :
            IF c \in reported
            THEN RevealedOnce(c)
            ELSE style[c].opacity = "0" /\ scheduled[c] = 0

\* C5: after init every watched card that has not reported intersection is
\* hidden, unless it is a product category and the #products section has
\* reported intersection, which reveals all product categories; no reveal
\* is scheduled for a card that has not reported, and a card that has
\* reported intersection is revealed once and no longer observed.
C5_RevealOnce ==
    phase = "ready" =>
        \A c \in Cards :
            IF c \in reported
            THEN RevealedOnce(c)
            ELSE /\ scheduled[c] = 0
                 /\ style[c].opacity = "0"
                        \/ (c \in ProductCards /\ cascades > 0)

\* Of two cards, one has reported intersection, is revealed and is no
\* longer observed; the other, a product category that has not reported, is
\* revealed by the cascade and still observed.
C5_Witness ==
    /\ phase = "ready"
    /\ Cards = {1, 2}
    /\ reported = {2}
    /\ scheduled[2] = 1
    /\ style[2] = RevealedStyle
    /\ style[1] = RevealedProductStyle
    /\ observing = {1}
    /\ cascades = 1
    /\ timers = <<>>

\* C6: where the browser has no IntersectionObserver, no watched card is
\* left with opacity 0 once init has returned.
C6_NoObserverAllVisible ==
    (phase = "ready" /\ ~hasIO) => \A c \in Cards : style[c].opacity # "0"

(***************************************************************************)
(* init and its exceptions                                                 *)
(***************************************************************************)
\* C11: an exception thrown by a step of init is caught in init and logged
\* once with the context 'Initialization failed'; no handler is left with an
\* uncaught exception; the steps after the failing one are not executed
\* (no header scroll listener, no anchor listeners, no observed card, the
\* links and the body's 'loading' class as they were) and the effects of
\* the steps before it remain (the cached elements, their listeners, the
\* hidden cards).  An init without an exception logs nothing.
C11_InitExceptionCaught ==
    phase = "ready" =>
        /\ ~uncaught
        /\ DOM = cacheDOMElements
        /\ initEventListeners(DOM) \subseteq listeners
        /\ IF InitThrowsIn = "none"
           THEN /\ logged = <<>>
                /\ ~classes.bodyLoading
           ELSE /\ logged = <<"Initialization failed">>
                /\ "scroll.headerScroll" \notin listeners
                /\ "anchor.click" \notin listeners
                /\ observing = {}
                /\ ~productObserving
                /\ links = LinksAtLoad
                /\ classes.bodyLoading
                /\ \A c \in Cards : style[c] = HiddenStyle

\* init has thrown in a document with cards, a header and contact links,
\* and has returned.
C11_Witness ==
    /\ phase = "ready"
    /\ InitThrowsIn = "initScrollReveal"
    /\ logged = <<"Initialization failed">>
    /\ Cards # {}
    /\ doc.header
    /\ doc.telLinks
    /\ "resize" \in listeners

(***************************************************************************)
(* CONFIG is only read                                                     *)
(***************************************************************************)
\* C12: no run of init, click, scroll or resize handler and no timer
\* changes a field of CONFIG: in every reachable state it is the record the
\* script created at load.
C12_ConfigReadOnly == CONFIG = ConfigAtLoad

\* init has run with CONFIG's flags and numbers, the menu has been closed
\* by the resize handler comparing with CONFIG's breakpoint, and the page
\* has been scrolled.
C12_Witness ==
    /\ CONFIG = ConfigAtLoad
    /\ inits = 1
    /\ links.tel = "tel:" \o ConfigAtLoad.phone
    /\ changedBy.by = "handleResize"
    /\ boxShadow # ""

(***************************************************************************)
(* The menu flag and what the page shows                                   *)
(***************************************************************************)
\* C13: in a document with #menuToggle and #headerActions, after init and
\* any toggle clicks, header-link clicks and resizes, the menu-open flag,
\* the 'active' class of #headerActions, the 'active' class of #menuToggle
\* and the body's overflow being 'hidden' are all true or all false.
C13_FlagMatchesIndicators ==
    (phase = "ready" /\ doc.menuToggle /\ doc.headerActions) =>
        /\ classes.headerActions = state.mobileMenuOpen
        /\ classes.menuToggle = state.mobileMenuOpen
        /\ (bodyOverflow = "hidden") = state.mobileMenuOpen

\* The menu has been opened by a click at the breakpoint's width and shows
\* all three indicators, with a timer still to run.
C13_Witness ==
    /\ doc.menuToggle /\ doc.headerActions /\ doc.headerLinks
    /\ state.mobileMenuOpen
    /\ classes.headerActions /\ classes.menuToggle
    /\ bodyOverflow = "hidden"
    /\ innerWidth >= CONFIG.mobile
    /\ timers # <<>>
    /\ changedBy = [by |-> "menuToggle.click", from |-> FALSE, width |-> 768]

(***************************************************************************)
(* The reveal animations with time passing and timers running              *)
(***************************************************************************)
\* The browser's event loop: time passes and a timer that is due runs.
SpecRevealFair ==
    /\ SpecReveal
    /\ WF_vars(Tick(Quantum))
    /\ WF_vars(RevealTimer)
    /\ WF_vars(StaggerTimer)

\* Card c is shown.
Shown(c) == c \in DOMAIN style /\ style[c].opacity = "1"

\* A callback of revealObserver gives each intersecting entry a new timer
\* of 100 ms times the entry's index in the batch.
RevealDelays ==
    \A batch \in SUBSET Cards :
        \A intersecting \in SUBSET batch :
            RevealCallback(batch, intersecting) =>
                \A c \in intersecting :
                    \E i \in (Len(timers) + 1)..Len(timers') :
                        /\ timers'[i].fn = "reveal"
                        /\ timers'[i].arg = c
                        /\ timers'[i].left =
                             100 * Cardinality({x \in batch : x < c})

\* A card that is shown stays shown.
StaysShown == \A c \in Cards : Shown(c) => style'[c].opacity = "1"

\* C14 as stated: a card that has reported intersection is eventually
\* shown, its timer set to 100 ms times its index in the batch; a card that
\* is shown stays shown; and a hidden card that has not reported
\* intersection stays hidden.
C14_UnreportedStaysHidden ==
    /\ \A c \in 1..MaxCards : (c \in reported) ~> Shown(c)
    /\ [][RevealDelays /\ StaysShown]_vars
    /\ [][\A c \in Cards \ reported :
            style[c].opacity = "0" => style'[c].opacity = "0" \/ c \in reported'
         ]_vars

\* C14: a card that has reported intersection is eventually shown, its
\* timer set to 100 ms times its index in the batch; a card that is shown
\* stays shown; and a hidden card that has not reported intersection stays
\* hidden unless it is a product category and the #products section has
\* reported intersection.
C14_RevealOneWay ==
    /\ \A c \in 1..MaxCards : (c \in reported) ~> Shown(c)
    /\ [][RevealDelays /\ StaysShown]_vars
    /\ [][\A c \in Cards \ reported :
            style[c].opacity = "0" =>
                \/ style'[c].opacity = "0"
                \/ c \in reported'
                \/ c \in ProductCards /\ cascades > 0
         ]_vars

\* A card that reported intersection is shown, another that never did is
\* hidden, and no timer is left to run.
C14_Witness ==
    /\ phase = "ready"
    /\ \E c \in reported : style[c] = RevealedStyle
    /\ \E c \in Cards \ reported : style[c].opacity = "0"
    /\ timers = <<>>

(***************************************************************************)
(* The product stagger                                                     *)
(***************************************************************************)
\* The product categories before p in the document.
ProductIndex(p) == Cardinality({x \in ProductCards : x < p})

\* The callback of productObserver for an intersecting #products gives
\* every product category one new timer of 150 ms times its index and
\* disconnects the observer; it is the only cascade.
CascadeScheduled ==
    ProductCallback(TRUE) =>
        /\ cascades = 0 /\ cascades' = 1
        /\ ~productObserving'
        /\ Len(timers') = Len(timers) + Cardinality(ProductCards)
        /\ \A p \in ProductCards :
              \E i \in (Len(timers) + 1)..Len(timers') :
                  /\ timers'[i].fn = "stagger"
                  /\ timers'[i].arg = p
                  /\ timers'[i].left = 150 * ProductIndex(p)

\* The cascade is scheduled at most once, and once it is the observer is
\* disconnected for good.
CascadeOnce == cascades <= 1 /\ (cascades = 1 => ~productObserving)

\* C15 as stated: the first intersection of #products schedules every
\* product category at 150 ms times its index and disconnects the observer,
\* so that the cascade is scheduled once; from then on a product category
\* becomes shown only when those before it are shown.
C15_ShownInIndexOrder ==
    /\ []CascadeOnce
    /\ [][CascadeScheduled]_vars
    /\ [][cascades = 1 =>
            \A q \in ProductCards :
                (~Shown(q) /\ style'[q].opacity = "1") =>
                    \A p \in ProductCards : p < q => style'[p].opacity = "1"
         ]_vars

\* C15: the first intersection of #products schedules every product
\* category at 150 ms times its index and disconnects the observer, so that
\* the cascade is scheduled once; the cascade's timers show the product
\* categories in index order: when one of them shows a card, those before
\* it are shown.
C15_ProductStagger ==
    /\ []CascadeOnce
    /\ [][CascadeScheduled]_vars
    /\ [][StaggerTimer =>
            \A p \in ProductCards : p <= DueTimer.arg => style'[p].opacity = "1"
         ]_vars

\* The cascade is half way: of two product categories the first is shown by
\* its timer, the second is hidden with its timer still to run, and the
\* observer is disconnected.
C15_Witness ==
    /\ ProductCards = {1, 2}
    /\ cascades = 1
    /\ ~productObserving
    /\ style[1] = RevealedProductStyle
    /\ style[2].opacity = "0"
    /\ \E i \in 1..Len(timers) :
          timers[i].fn = "stagger" /\ timers[i].arg = 2 /\ timers[i].left > 0

(***************************************************************************)
(* The header's shadow: scrolling around the offset 50                     *)
(***************************************************************************)
\* The full document with and without #header.
ScrollDocuments == {[FullDocument EXCEPT !.header = h] : h \in BOOLEAN}

\* Where the user scrolls to: the top, the last offset of the light shadow
\* and the first of the strong one.
ShadowOffsets == {0, 50, 51}

InitScroll ==
    /\ NoTimers
    /\ wait = DebounceDefaultWait
    /\ IdleDebounce
    /\ limit = ThrottleDefaultLimit
    /\ IdleThrottle
    /\ IdleLink
    /\ IdleNotify
    /\ \E d \in ScrollDocuments : PageAtLoad(d)
    /\ hasIO \in BOOLEAN
    /\ readyState \in {"loading", "complete"}
    /\ innerWidth = 1024

NextScroll ==
    \/ RunScript
    \/ DOMContentLoaded
    \/ \E y \in ShadowOffsets : ScrollTo(y)
    \/ ScrollEvent
    \/ ScrollThrottleReset
    \/ Tick(Quantum)

SpecScroll == InitScroll /\ [][NextScroll]_vars

\* C16: once the header's scroll listener has run, scrolling has stopped
\* and every timer has expired, the header has the strong shadow if the
\* page is scrolled beyond 50 and the light shadow otherwise.
C16_ShadowTracksScroll ==
    (/\ "scroll.headerScroll" \in listeners
     /\ boxShadow # ""
     /\ ~scrollPending
     /\ timers = <<>>)
    => boxShadow = IF scrollY > 50 THEN "0 2px 10px rgba(0, 0, 0, 0.1)"
                   ELSE "0 1px 2px rgba(0, 0, 0, 0.05)"

(***************************************************************************)
(* init runs once                                                          *)
(***************************************************************************)
\* init has run at most once; it has run exactly when the page is ready;
\* and once the script has run and the document is no longer loading, it
\* has run.
InitOnce ==
    /\ inits <= 1
    /\ (inits = 1) = (phase = "ready")
    /\ (phase # "load" /\ readyState # "loading") => inits = 1
    /\ phase = "ready" => initEventListeners(DOM) \subseteq listeners
    /\ phase # "ready" => listeners \subseteq {"DOMContentLoaded"}

\* C17: the startup code runs init through one of its two paths, at once
\* when the document is no longer loading and on DOMContentLoaded
\* otherwise, and never twice, so the listeners are those of one run of
\* init; a click on the menu toggle flips the menu-open flag once.
C17_InitExactlyOnce ==
    /\ []InitOnce
    /\ [][(ClickMenuToggle /\ ToggleWired)
            => state'.mobileMenuOpen = ~state.mobileMenuOpen]_vars

\* init ran on DOMContentLoaded, and a click has opened the menu.
C17_Witness ==
    /\ inits = 1
    /\ "DOMContentLoaded" \in listeners
    /\ readyState = "interactive"
    /\ changedBy.by = "menuToggle.click"
    /\ state.mobileMenuOpen

(***************************************************************************)
(* The contact links after init                                            *)
(***************************************************************************)
\* C18: once init has returned, the anchors whose href started with 'tel:'
\* have the href CONFIG.getPhoneLink() and those whose href contained
\* 'wa.me' have CONFIG.getWhatsAppLink() with the default message.
C18_LinksUseConfig ==
    phase = "ready" =>
        /\ doc.telLinks => links.tel = getPhoneLink
        /\ doc.waLinks => links.wa = getWhatsAppLink(FALSE, <<>>)

(***************************************************************************)
(* The current section: scrolling over the sections, with the menu         *)
(***************************************************************************)
\* Documents without #header: the full one, one whose hero section reaches
\* down over the services and into the products, and one without
\* #services.
SectionDocuments ==
    {[FullDocument EXCEPT !.header = FALSE],
     [FullDocument EXCEPT !.header = FALSE, !.offsetHeight.hero = 1300],
     [FullDocument EXCEPT !.header = FALSE,
                          !.sections = @ \ {"services"}]}

\* Where the user scrolls to: the top, into the services, into the
\* products, and below the last section.
SectionOffsets == {0, 450, 1050, 2300}

\* The width the window is resized to.
SectionWidths == {768}

InitSection ==
    /\ NoTimers
    /\ wait = DebounceDefaultWait
    /\ IdleDebounce
    /\ limit = ThrottleDefaultLimit
    /\ IdleThrottle
    /\ IdleLink
    /\ IdleNotify
    /\ \E d \in SectionDocuments : PageAtLoad(d)
    /\ hasIO = TRUE
    /\ readyState = "complete"
    /\ innerWidth = 767

NextSection ==
    \/ RunScript
    \/ ClickMenuToggle
    \/ ClickHeaderLink
    \/ ClickPhone
    \/ \E t \in ClickTargets : ClickWhatsApp(t)
    \/ ClickProductCategory
    \/ \E w \in SectionWidths : Resize(w)
    \/ HandleResize
    \/ \E y \in SectionOffsets : ScrollTo(y)
    \/ ScrollEvent
    \/ ScrollThrottleReset
    \/ Tick(Quantum)

SpecSection == InitSection /\ [][NextSection]_vars

\* The run of the throttled handleScroll in a scroll event.
ScrollHandlerRuns ==
    /\ ScrollEvent
    /\ "scroll.handleScroll" \in listeners
    /\ ~inThrottle["handleScroll"]

\* The sections of the document whose range holds the position, as numbers
\* in the order hero, services, products, contact.
Holding(position) ==
    LET order == <<"hero", "services", "products", "contact">>
    IN  {k \in 1..4 :
            /\ order[k] \in doc.sections
            /\ doc.offsetTop[order[k]] <= position
            /\ position < doc.offsetTop[order[k]] + doc.offsetHeight[order[k]]}

\* The section the claim names for the position, or the current one.
SectionAt(position) ==
    LET order == <<"hero", "services", "products", "contact">>
        hits == Holding(position)
    IN  IF hits = {} THEN state.currentSection
        ELSE order[CHOOSE k \in hits : \A j \in hits : j <= k]

\* C19: the current section is 'hero' until a scroll handler runs; a run
\* of the scroll handler sets it to the last section, in the order hero,
\* services, products, contact, whose range holds scrollY + 200, and
\* leaves it when no section of the document does; no other step changes
\* it; and a scroll event does not change the menu-open flag.
C19_CurrentSection ==
    /\ [](phase # "ready" => state.currentSection = "hero")
    /\ [][IF ScrollHandlerRuns
          THEN state'.currentSection = SectionAt(scrollY + 200)
          ELSE state'.currentSection = state.currentSection]_vars
    /\ [][ScrollEvent => state'.mobileMenuOpen = state.mobileMenuOpen]_vars

\* After a click on a product category the page is at the contact section,
\* with the menu open and a WhatsApp button clicked.
C19_Witness ==
    /\ state.currentSection = "contact"
    /\ scrollY = 1700
    /\ state.mobileMenuOpen
    /\ links.btn # ""

(***************************************************************************)
(* Clicks on the WhatsApp buttons                                          *)
(***************************************************************************)
\* The full document with the WhatsApp buttons in the contact section, in
\* the hero section or in no section, with and without an element inside
\* them, and with and without tel: and wa.me anchors.
ContactDocuments ==
    {[FullDocument EXCEPT !.whatsappSection = sec, !.whatsappIcon = i,
                          !.telLinks = t, !.waLinks = w] :
        sec \in {"contact", "hero", ""}, i \in BOOLEAN, t \in BOOLEAN,
        w \in BOOLEAN}

InitContact ==
    /\ NoTimers
    /\ wait = DebounceDefaultWait
    /\ IdleDebounce
    /\ limit = ThrottleDefaultLimit
    /\ IdleThrottle
    /\ IdleLink
    /\ IdleNotify
    /\ \E d \in ContactDocuments : PageAtLoad(d)
    /\ hasIO \in BOOLEAN
    /\ readyState \in {"loading", "complete"}
    /\ innerWidth = 1024

NextContact ==
    \/ RunScript
    \/ DOMContentLoaded
    \/ \E t \in ClickTargets : ClickWhatsApp(t)
    \/ ClickPhone

SpecContact == InitContact /\ [][NextContact]_vars

\* The text the claim gives the link of a button inside the section of
\* the given id, 'unknown' for no section.
ContextText(id) ==
    <<"Hello", " ", "KELAH", " ", "Agrovet", ",", " ", "I'm", " ",
      "interested", " ", "in", " ", "your", " ", "services.", " ", "I", " ",
      "was", " ", "viewing", ":", " ",
      IF id = "" THEN "unknown" ELSE id>>

\* C20: after a click on a WhatsApp button whose listener is registered,
\* wherever on the button the click lands, the button's href is
\* CONFIG.getWhatsAppLink of the text that names the id of the section
\* around the button, or 'unknown'.
C20_ButtonLinkHasContext ==
    [][\A t \in ClickTargets :
         (ClickWhatsApp(t) /\ "whatsappBtn.click" \in listeners)
            => links'.btn =
                 getWhatsAppLink(TRUE, ContextText(doc.whatsappSection))
      ]_vars

====
